---- MODULE Spec2Model ----
(***************************************************************************)
(* Type-load-level discipline of src/coreclr/utilcode/clrhost.cpp:         *)
(* LoadsTypeHolder installs a new typeload level limit in the calling      *)
(* thread's ClrDebugState for the scope of the holder and restores the     *)
(* prior ClrDebugState when the holder is destroyed. GetCurrentModuleBase   *)
(* caches the module base in the static pImageBase. The main process of   *)
(* the shared event test (pal/tests/palsuite/composite/object_management/  *)
(* event/shared/main.cpp) starts its child processes and collects their    *)
(* exit codes.                                                             *)
(***************************************************************************)
EXTENDS Integers, Sequences, FiniteSets, TLC

VARIABLES dbg, dbg0, holders, last, actor, track,
          pImageBase, symbolBase, storeBuf, call, completed,
          ev

\* The state of the LoadsTypeHolder discipline, of GetCurrentModuleBase; ev
\* is the state of the event test's main process and of its children.
HolderVars == <<dbg, dbg0, holders, last, actor, track>>

ModuleVars == <<pImageBase, symbolBase, storeBuf, call, completed>>

vars == <<HolderVars, ModuleVars, ev>>

(* ------------------------------ bounds --------------------------------- *)

\* Largest load level a thread starts with or a holder asks for.
MaxLevel == 2

\* Deepest nesting of LoadsTypeHolder frames on one thread's stack.
MaxDepth == 2

\* Nesting explored per thread when two threads interleave.
MTDepth == 1

\* Calls of GetCurrentModuleBase each thread makes.
MaxCalls == 2

(* ----------------------------- domains --------------------------------- *)

Threads == {"t1", "t2"}

\* The thread whose call chain Spec explores in depth.
MainThread == "t1"

Levels == 0..MaxLevel

\* Violation categories of the violation mask; GCViolation stands for every
\* category the holder does not look at.
LoadsTypeViolation == "LoadsTypeViolation"

BadDebugState == "BadDebugState"

GCViolation == "GCViolation"

\* ContractStackRecord addresses: the record of the holder in stack slot i of
\* a thread has address i; NULL and OuterRecord are not holder records.
NULL == 0

\* A record pushed by an enclosing contract that is not a LoadsTypeHolder.
OuterRecord == -1

(* --------------------------- ClrDebugState ----------------------------- *)

\* ClrDebugState, one per thread: the fields the holder reads and writes.
ClrDebugState(level, mask, trace) ==
    [m_maxLoadTypeLevel |-> level, m_violationmask |-> mask, m_pContractStackTrace |-> trace]

GetMaxLoadTypeLevel(st) == st.m_maxLoadTypeLevel

ViolationMask(st) == st.m_violationmask

GetContractStackTrace(st) == st.m_pContractStackTrace

ViolationMaskReset(st, kind) ==
    [st EXCEPT !.m_violationmask = @ \ {kind}]

ViolationMaskSet(st, kind) ==
    [st EXCEPT !.m_violationmask = @ \cup {kind}]

SetMaxLoadTypeLevel(st, newLevel) ==
    [st EXCEPT !.m_maxLoadTypeLevel = newLevel]

SetContractStackTrace(st, pRecord) ==
    [st EXCEPT !.m_pContractStackTrace = pRecord]

\* CheckClrDebugState(): a pointer to the calling thread's own ClrDebugState;
\* the ClrDebugState of thread t is dbg[t] and t stands for its address.
CheckClrDebugState(t) == t

(* --------------------------- LoadsTypeHolder --------------------------- *)

\* Contents of the members an inactive holder never initialises.
Uninitialised == ClrDebugState(0, {}, NULL)

NoRecord == [m_testmask |-> 0, m_construct |-> "", m_pNext |-> NULL]

\* A holder constructed with fConditional = FALSE: only m_fConditional is set.
\* The fields after m_contractStackRecord are not members: they remember the
\* constructor's arguments, the ClrDebugState it found, the number of
\* violations it reported, whether one was reported inside its scope and
\* whether its destructor has run while a holder built after it is alive.
NoHolder ==
    [m_fConditional |-> FALSE, m_pClrDebugState |-> "", m_oldClrDebugState |-> Uninitialised,
     m_contractStackRecord |-> NoRecord,
     newLevel |-> 0, fEnforce |-> FALSE, before |-> Uninitialised,
     reported |-> 0, violInside |-> FALSE, destroyed |-> FALSE]

\* Mutations of ShouldAssert: the comparison lets equality through, only the
\* LoadsTypeViolation bit is looked at, the direction flag is ignored.
ShouldAssertOnEqual(fEnforceLevelChangeDirection, newLevel, st) ==
    /\ fEnforceLevelChangeDirection
    /\ newLevel >= GetMaxLoadTypeLevel(st)
    /\ ({LoadsTypeViolation, BadDebugState} \cap ViolationMask(st)) = {}

ShouldAssertLoadsTypeOnly(fEnforceLevelChangeDirection, newLevel, st) ==
    /\ fEnforceLevelChangeDirection
    /\ newLevel > GetMaxLoadTypeLevel(st)
    /\ LoadsTypeViolation \notin ViolationMask(st)

ShouldAssertAnyDirection(fEnforceLevelChangeDirection, newLevel, st) ==
    /\ newLevel > GetMaxLoadTypeLevel(st)
    /\ ({LoadsTypeViolation, BadDebugState} \cap ViolationMask(st)) = {}

\* Further mutations of ShouldAssert: the comparison is reversed, the
\* comparison is off by one, any bit of the mask withholds the assert, the
\* assert is raised only inside another holder.
ShouldAssertReversed(fEnforceLevelChangeDirection, newLevel, st) ==
    /\ fEnforceLevelChangeDirection
    /\ newLevel < GetMaxLoadTypeLevel(st)
    /\ ({LoadsTypeViolation, BadDebugState} \cap ViolationMask(st)) = {}

ShouldAssertOffByOne(fEnforceLevelChangeDirection, newLevel, st) ==
    /\ fEnforceLevelChangeDirection
    /\ newLevel > GetMaxLoadTypeLevel(st) + 1
    /\ ({LoadsTypeViolation, BadDebugState} \cap ViolationMask(st)) = {}

ShouldAssertEmptyMask(fEnforceLevelChangeDirection, newLevel, st) ==
    /\ fEnforceLevelChangeDirection
    /\ newLevel > GetMaxLoadTypeLevel(st)
    /\ ViolationMask(st) = {}

ShouldAssertNested(fEnforceLevelChangeDirection, newLevel, st) ==
    /\ fEnforceLevelChangeDirection
    /\ newLevel > GetMaxLoadTypeLevel(st)
    /\ ({LoadsTypeViolation, BadDebugState} \cap ViolationMask(st)) = {}
    /\ GetContractStackTrace(st) # OuterRecord

\* clrhost.cpp:151-155: the constructor raises CONTRACT_ASSERT.
ShouldAssert(fEnforceLevelChangeDirection, newLevel, st) ==
    /\ fEnforceLevelChangeDirection
    /\ newLevel > GetMaxLoadTypeLevel(st)
    /\ ({LoadsTypeViolation, BadDebugState} \cap ViolationMask(st)) = {}

\* clrhost.cpp:157-163: what CONTRACT_ASSERT is handed, and the state it sees.
AssertReport(st) ==
    [testmask |-> GetMaxLoadTypeLevel(st) + 1, state |-> st]

\* clrhost.cpp:149: m_oldClrDebugState = *m_pClrDebugState.
SaveOld(st) == st

\* Mutations of InstallLevel: the suppression is not lifted, an ascent is
\* not installed.
InstallLevelKeepMask(st, newLevel) == SetMaxLoadTypeLevel(st, newLevel)

InstallLevelNoAscent(st, newLevel) ==
    IF newLevel > GetMaxLoadTypeLevel(st)
    THEN ViolationMaskReset(st, LoadsTypeViolation)
    ELSE SetMaxLoadTypeLevel(ViolationMaskReset(st, LoadsTypeViolation), newLevel)

\* clrhost.cpp:168-169: the suppression is lifted and the new limit is set.
InstallLevel(st, newLevel) ==
    SetMaxLoadTypeLevel(ViolationMaskReset(st, LoadsTypeViolation), newLevel)

\* Mutation of MakeRecord: the LOADS_TYPE field holds newLevel, not
\* newLevel + 1.
MakeRecordLevelOnly(st, newLevel, fEnforceLevelChangeDirection) ==
    [m_testmask  |-> newLevel,
     m_construct |-> IF fEnforceLevelChangeDirection
                     THEN "TRIGGERS_TYPE_LOAD"
                     ELSE "OVERRIDE_TYPE_LOAD_LEVEL_LIMIT",
     m_pNext     |-> GetContractStackTrace(st)]

\* clrhost.cpp:171-176: the holder's own ContractStackRecord. m_testmask is
\* kept as the value of its LOADS_TYPE field, newLevel + 1; the call site
\* (szFunction, szFile, lineNum) is diagnostic text and is left out.
MakeRecord(st, newLevel, fEnforceLevelChangeDirection) ==
    [m_testmask  |-> newLevel + 1,
     m_construct |-> IF fEnforceLevelChangeDirection
                     THEN "TRIGGERS_TYPE_LOAD"
                     ELSE "OVERRIDE_TYPE_LOAD_LEVEL_LIMIT",
     m_pNext     |-> GetContractStackTrace(st)]

\* clrhost.cpp:177: the holder's record becomes the head of the trace.
PushRecord(st, pRecord) == SetContractStackTrace(st, pRecord)

\* Mutations of Restore: only the level limit is put back, nothing is put
\* back, the trace head is left alone, the violation mask is left alone.
RestoreKeepMask(st, h) ==
    [h.m_oldClrDebugState EXCEPT !.m_violationmask = ViolationMask(st)]

RestoreLevelOnly(st, h) ==
    SetMaxLoadTypeLevel(st, GetMaxLoadTypeLevel(h.m_oldClrDebugState))

RestoreNothing(st, h) == st

RestoreWithoutTrace(st, h) ==
    SetContractStackTrace(h.m_oldClrDebugState, GetContractStackTrace(st))

\* clrhost.cpp:196: *m_pClrDebugState = m_oldClrDebugState, every field.
Restore(st, h) == h.m_oldClrDebugState

\* Mutation of ConstructedState: the fConditional test is missing.
ConstructedStateAlways(st, fConditional, newLevel, pRecord) ==
    PushRecord(InstallLevel(st, newLevel), pRecord)

\* clrhost.cpp:144-177: the ClrDebugState the constructor leaves behind.
ConstructedState(st, fConditional, newLevel, pRecord) ==
    IF fConditional THEN PushRecord(InstallLevel(st, newLevel), pRecord) ELSE st

\* Remembers in every live active scope that a violation was reported in it.
NoteViolation(hs, n) ==
    IF n = 0 THEN hs
    ELSE [i \in 1..Len(hs) |->
            IF hs[i].m_fConditional THEN [hs[i] EXCEPT !.violInside = TRUE] ELSE hs[i]]

NoArgs == [fConditional |-> FALSE, newLevel |-> 0, fEnforce |-> FALSE]

\* The last operation of a thread: which one, its arguments, the holder it
\* built or destroyed, the violations it reported and, for a destruction, how
\* many scopes the failure has unwound so far.
NoOp ==
    [op |-> "none", args |-> NoArgs, holder |-> NoHolder, reports |-> <<>>, unwound |-> 0]

\* Mutation of Construct: CONTRACT_ASSERT is raised at the end of the
\* constructor, after the new limit and the holder's record are in place.
ConstructReportsAfter(t, fConditional, newLevel, fEnforceLevelChangeDirection) ==
    LET pState == CheckClrDebugState(t)
        st0   == dbg[pState]
        addr  == Len(holders[t]) + 1
        st1   == ConstructedState(st0, fConditional, newLevel, addr)
        rep   == IF fConditional /\ ShouldAssert(fEnforceLevelChangeDirection, newLevel, st0)
                 THEN <<AssertReport(st1)>> ELSE <<>>
        rec   == MakeRecord(InstallLevel(st0, newLevel), newLevel,
                            fEnforceLevelChangeDirection)
        h     == IF fConditional
                 THEN [m_fConditional |-> TRUE, m_pClrDebugState |-> pState,
                       m_oldClrDebugState |-> SaveOld(st0),
                       m_contractStackRecord |-> rec,
                       newLevel |-> newLevel, fEnforce |-> fEnforceLevelChangeDirection,
                       before |-> st0, reported |-> Len(rep), violInside |-> FALSE,
                       destroyed |-> FALSE]
                 ELSE NoHolder
    IN /\ dbg' = [dbg EXCEPT ![pState] = st1]
       /\ holders' = [holders EXCEPT ![t] = Append(NoteViolation(@, Len(rep)), h)]
       /\ last' = [last EXCEPT
                     ![t] = [op |-> "ctor",
                             args |-> [fConditional |-> fConditional, newLevel |-> newLevel,
                                       fEnforce |-> fEnforceLevelChangeDirection],
                             holder |-> h, reports |-> rep, unwound |-> 0]]
       /\ actor' = t
       /\ UNCHANGED dbg0

\* LoadsTypeHolder::LoadsTypeHolder, clrhost.cpp:129-181, run by thread t.
Construct(t, fConditional, newLevel, fEnforceLevelChangeDirection) ==
    LET pState == CheckClrDebugState(t)
        st0   == dbg[pState]
        addr  == Len(holders[t]) + 1
        rep   == IF fConditional /\ ShouldAssert(fEnforceLevelChangeDirection, newLevel, st0)
                 THEN <<AssertReport(st0)>> ELSE <<>>
        rec   == MakeRecord(InstallLevel(st0, newLevel), newLevel,
                            fEnforceLevelChangeDirection)
        h     == IF fConditional
                 THEN [m_fConditional |-> TRUE, m_pClrDebugState |-> pState,
                       m_oldClrDebugState |-> SaveOld(st0),
                       m_contractStackRecord |-> rec,
                       newLevel |-> newLevel, fEnforce |-> fEnforceLevelChangeDirection,
                       before |-> st0, reported |-> Len(rep), violInside |-> FALSE,
                       destroyed |-> FALSE]
                 ELSE NoHolder
    IN /\ dbg' = [dbg EXCEPT ![pState] = ConstructedState(@, fConditional, newLevel, addr)]
       /\ holders' = [holders EXCEPT ![t] = Append(NoteViolation(@, Len(rep)), h)]
       /\ last' = [last EXCEPT
                     ![t] = [op |-> "ctor",
                             args |-> [fConditional |-> fConditional, newLevel |-> newLevel,
                                       fEnforce |-> fEnforceLevelChangeDirection],
                             holder |-> h, reports |-> rep, unwound |-> 0]]
       /\ actor' = t
       /\ UNCHANGED dbg0

\* Mutation of Destroy: the destructor writes a ClrDebugState shared by all
\* threads instead of the one m_pClrDebugState points to.
DestroyShared(t, failing) ==
    /\ holders[t] # <<>>
    /\ LET n  == Len(holders[t])
           h  == holders[t][n]
       IN /\ dbg' = IF h.m_fConditional
                    THEN [dbg EXCEPT ![MainThread] = Restore(@, h)]
                    ELSE dbg
          /\ holders' = [holders EXCEPT ![t] = SubSeq(@, 1, n - 1)]
          /\ last' = [last EXCEPT
                        ![t] = [op |-> "dtor", args |-> NoArgs, holder |-> h, reports |-> <<>>,
                                unwound |-> IF failing THEN last[t].unwound + 1 ELSE 0]]
    /\ actor' = t
    /\ UNCHANGED dbg0

\* LoadsTypeHolder::~LoadsTypeHolder, clrhost.cpp:186-198: the innermost
\* holder of thread t goes out of scope, at the end of the scope (failing =
\* FALSE) or because a failure propagates out of the scope (failing = TRUE).
Destroy(t, failing) ==
    /\ holders[t] # <<>>
    /\ LET n  == Len(holders[t])
           h  == holders[t][n]
       IN /\ dbg' = IF h.m_fConditional
                    THEN [dbg EXCEPT ![h.m_pClrDebugState] = Restore(@, h)]
                    ELSE dbg
          /\ holders' = [holders EXCEPT ![t] = SubSeq(@, 1, n - 1)]
          /\ last' = [last EXCEPT
                        ![t] = [op |-> "dtor", args |-> NoArgs, holder |-> h, reports |-> <<>>,
                                unwound |-> IF failing THEN last[t].unwound + 1 ELSE 0]]
    /\ actor' = t
    /\ UNCHANGED dbg0

\* LoadsTypeHolder::~LoadsTypeHolder, clrhost.cpp:186-198, run for the holder
\* in slot i of thread t whatever stands above it: the destructor has no test
\* of the order. The holder's storage stays where it is, marked destroyed.
DestroyAt(t, i) ==
    /\ i \in 1..Len(holders[t])
    /\ ~holders[t][i].destroyed
    /\ LET h == holders[t][i]
       IN /\ dbg' = IF h.m_fConditional
                    THEN [dbg EXCEPT ![h.m_pClrDebugState] = Restore(@, h)]
                    ELSE dbg
          /\ holders' = [holders EXCEPT ![t][i].destroyed = TRUE]
          /\ last' = [last EXCEPT
                        ![t] = [op |-> "dtor", args |-> NoArgs, holder |-> h, reports |-> <<>>,
                                unwound |-> 0]]
    /\ actor' = t
    /\ UNCHANGED dbg0

\* suppress(kind): the caller marks a violation category as suppressed.
Suppress(t, kind) ==
    /\ kind \notin ViolationMask(dbg[t])
    /\ dbg' = [dbg EXCEPT ![t] = ViolationMaskSet(@, kind)]
    /\ last' = [last EXCEPT ![t] = [NoOp EXCEPT !.op = "suppress"]]
    /\ actor' = t
    /\ UNCHANGED <<dbg0, holders>>

(* ------------------------- event test, main.cpp ------------------------ *)

\* main.cpp:24: unsigned int PROCESS_COUNT = 2.
PROCESS_COUNT == 2

\* Result codes of a PAL test and of its child processes.
PASS == 0

FAIL == 1

\* What GetExitCodeProcess stores for a process that has not exited.
STILL_ACTIVE == 259

\* What a child process can exit with.
ChildExitCodes == {PASS, FAIL}

\* What WaitForMultipleObjects can return.
WAIT_OBJECT_0 == 0

WAIT_FAILED == -1

\* main.cpp:106-108 and the state right before the loop of line 160: no
\* child is created, returnCode = 0, processReturnCode = 0, testReturnCode =
\* PASS. facts keeps what each call of the second half answered, waited says
\* that WaitForMultipleObjects has returned, exitCode is what main returned.
TestStart ==
    [pc |-> "create", i |-> 0, child |-> <<>>,
     returnCode |-> 0, processReturnCode |-> 0, testReturnCode |-> PASS,
     waited |-> FALSE, exitCode |-> PASS,
     facts |-> [got |-> <<>>, hThread |-> <<>>, hProcess |-> <<>>,
                pFile |-> TRUE, hEventHandle |-> TRUE]]

\* main.cpp:160-199: one iteration of the loop that creates the children.
\* When CreateProcess fails, Fail() ends the test with FAIL at once.
CreateChild ==
    /\ ev.pc = "create"
    /\ ev.i < PROCESS_COUNT
    /\ \E created \in BOOLEAN :
          ev' = IF created
                THEN [ev EXCEPT !.child = Append(@, [state |-> "running", exitCode |-> PASS]),
                                !.i = @ + 1,
                                !.pc = IF ev.i + 1 = PROCESS_COUNT THEN "wait" ELSE "create"]
                ELSE [ev EXCEPT !.pc = "done", !.exitCode = FAIL]

\* A child process exits.
ChildExits ==
    \E k \in 1..Len(ev.child), code \in ChildExitCodes :
        /\ ev.child[k].state = "running"
        /\ ev' = [ev EXCEPT !.child[k] = [state |-> "exited", exitCode |-> code]]

\* main.cpp:201-206: WaitForMultipleObjects(PROCESS_COUNT, hProcess, TRUE,
\* INFINITE) returns WAIT_OBJECT_0 once every child has exited, or fails.
WaitForChildren ==
    /\ ev.pc = "wait"
    /\ \E returnCode \in {WAIT_OBJECT_0, WAIT_FAILED} :
          /\ returnCode = WAIT_OBJECT_0
                => \A k \in 1..Len(ev.child) : ev.child[k].state = "exited"
          /\ ev' = [ev EXCEPT !.returnCode = returnCode,
                              !.testReturnCode = IF WAIT_OBJECT_0 # returnCode THEN FAIL ELSE @,
                              !.waited = TRUE, !.i = 0, !.pc = "check"]

\* What GetExitCodeProcess stores for child k.
ExitCodeOf(k) ==
    IF ev.child[k].state = "exited" THEN ev.child[k].exitCode ELSE STILL_ACTIVE

\* Mutation of CheckChild: a child that goes well sets the result to PASS.
CheckChildForgets ==
    /\ ev.pc = "check"
    /\ ev.i < PROCESS_COUNT
    /\ \E got \in BOOLEAN, hThreadClosed \in BOOLEAN, hProcessClosed \in BOOLEAN :
          LET k == ev.i + 1
              processReturnCode == IF got THEN ExitCodeOf(k) ELSE ev.processReturnCode
          IN ev' = [ev EXCEPT
                      !.processReturnCode = processReturnCode,
                      !.testReturnCode =
                          IF \/ ~got
                             \/ processReturnCode = FAIL
                             \/ ~hThreadClosed
                             \/ ~hProcessClosed
                          THEN FAIL ELSE PASS,
                      !.facts.got = Append(@, got),
                      !.facts.hThread = Append(@, hThreadClosed),
                      !.facts.hProcess = Append(@, hProcessClosed),
                      !.i = k,
                      !.pc = IF k = PROCESS_COUNT THEN "fclose" ELSE "check"]

\* main.cpp:209-237: one iteration of the loop that checks the children:
\* GetExitCodeProcess, the test of processReturnCode, the two CloseHandle.
\* processReturnCode keeps its value when GetExitCodeProcess fails.
CheckChild ==
    /\ ev.pc = "check"
    /\ ev.i < PROCESS_COUNT
    /\ \E got \in BOOLEAN, hThreadClosed \in BOOLEAN, hProcessClosed \in BOOLEAN :
          LET k == ev.i + 1
              processReturnCode == IF got THEN ExitCodeOf(k) ELSE ev.processReturnCode
          IN ev' = [ev EXCEPT
                      !.processReturnCode = processReturnCode,
                      !.testReturnCode =
                          IF \/ ~got
                             \/ processReturnCode = FAIL
                             \/ ~hThreadClosed
                             \/ ~hProcessClosed
                          THEN FAIL ELSE @,
                      !.facts.got = Append(@, got),
                      !.facts.hThread = Append(@, hThreadClosed),
                      !.facts.hProcess = Append(@, hProcessClosed),
                      !.i = k,
                      !.pc = IF k = PROCESS_COUNT THEN "fclose" ELSE "check"]

\* main.cpp:239-245: the result line is written and the file closed.
CloseFile ==
    /\ ev.pc = "fclose"
    /\ \E closed \in BOOLEAN :
          ev' = [ev EXCEPT !.testReturnCode = IF ~closed THEN FAIL ELSE @,
                           !.facts.pFile = closed, !.pc = "closeEvent"]

\* main.cpp:247-251: CloseHandle(hEventHandle).
CloseEvent ==
    /\ ev.pc = "closeEvent"
    /\ \E closed \in BOOLEAN :
          ev' = [ev EXCEPT !.testReturnCode = IF ~closed THEN FAIL ELSE @,
                           !.facts.hEventHandle = closed, !.pc = "return"]

\* main.cpp:253-263: return testReturnCode.
ReturnFromMain ==
    /\ ev.pc = "return"
    /\ ev' = [ev EXCEPT !.exitCode = ev.testReturnCode, !.pc = "done"]

(* ------------------------- GetCurrentModuleBase ------------------------ *)

\* The base address of the module that holds GetClrModuleBase.
ModuleBaseAddress == 1

\* What PAL_GetSymbolModuleBase can answer: the base, or NULL when dladdr
\* does not find the symbol. The answer is the same for every call of a run.
SymbolBases == {NULL, ModuleBaseAddress}

\* clrhost.cpp:51: PAL_GetSymbolModuleBase((void*)GetClrModuleBase).
PAL_GetSymbolModuleBase == symbolBase

\* A thread outside GetCurrentModuleBase. n counts its calls, pRet is the
\* local of the call, result what the last call returned; afterCompleted and
\* afterVisible say what held when the current call began, looked whether the
\* current call ran the lookup.
NoCall ==
    [pc |-> "idle", n |-> 0, pRet |-> NULL, result |-> NULL,
     afterCompleted |-> FALSE, afterVisible |-> FALSE, looked |-> FALSE]

\* clrhost.cpp:18: static void* pImageBase = NULL, and no call under way.
ModuleInitial ==
    /\ pImageBase = NULL
    /\ storeBuf = [t \in Threads |-> <<>>]
    /\ call = [t \in Threads |-> NoCall]
    /\ completed = FALSE

\* What a load of pImageBase by thread t yields: pImageBase is a plain
\* static written without a barrier (51) and read without one (48), so a
\* store of another thread is seen only once it has reached memory, while
\* the thread's own latest store is always seen.
VolatileLoadWithoutBarrier(t) ==
    IF storeBuf[t] # <<>> THEN storeBuf[t][Len(storeBuf[t])] ELSE pImageBase

\* clrhost.cpp:39: thread t enters GetCurrentModuleBase.
EnterCall(t) ==
    /\ call[t].pc = "idle"
    /\ call[t].n < MaxCalls
    /\ call' = [call EXCEPT ![t] = [@ EXCEPT !.pc = "load", !.n = @ + 1,
                                             !.pRet = NULL,
                                             !.afterCompleted = completed,
                                             !.afterVisible =
                                                 VolatileLoadWithoutBarrier(t) # NULL,
                                             !.looked = FALSE]]
    /\ UNCHANGED <<pImageBase, symbolBase, storeBuf, completed>>

\* Mutation of LoadCached: the cached value is not looked at.
LoadCachedIgnored(t) ==
    /\ call[t].pc = "load"
    /\ call' = [call EXCEPT ![t] = [@ EXCEPT !.pRet = NULL, !.pc = "lookup"]]
    /\ UNCHANGED <<pImageBase, symbolBase, storeBuf, completed>>

\* clrhost.cpp:48-49: pRet = VolatileLoadWithoutBarrier(&pImageBase); if (!pRet).
LoadCached(t) ==
    /\ call[t].pc = "load"
    /\ LET pRet == VolatileLoadWithoutBarrier(t)
       IN call' = [call EXCEPT ![t] = [@ EXCEPT !.pRet = pRet,
                                                !.pc = IF pRet = NULL THEN "lookup"
                                                                      ELSE "return"]]
    /\ UNCHANGED <<pImageBase, symbolBase, storeBuf, completed>>

\* clrhost.cpp:51, right-hand side: pRet = PAL_GetSymbolModuleBase(...).
Lookup(t) ==
    /\ call[t].pc = "lookup"
    /\ call' = [call EXCEPT ![t] = [@ EXCEPT !.pRet = PAL_GetSymbolModuleBase,
                                             !.looked = TRUE, !.pc = "store"]]
    /\ UNCHANGED <<pImageBase, symbolBase, storeBuf, completed>>

\* clrhost.cpp:51, left-hand side: pImageBase = pRet, a plain store.
StoreCached(t) ==
    /\ call[t].pc = "store"
    /\ storeBuf' = [storeBuf EXCEPT ![t] = Append(@, call[t].pRet)]
    /\ call' = [call EXCEPT ![t] = [@ EXCEPT !.pc = "return"]]
    /\ UNCHANGED <<pImageBase, symbolBase, completed>>

\* The oldest store of thread t to pImageBase reaches memory.
StoreVisible(t) ==
    /\ storeBuf[t] # <<>>
    /\ pImageBase' = Head(storeBuf[t])
    /\ storeBuf' = [storeBuf EXCEPT ![t] = Tail(@)]
    /\ UNCHANGED <<symbolBase, call, completed>>

\* clrhost.cpp:54: return pRet.
ReturnBase(t) ==
    /\ call[t].pc = "return"
    /\ call' = [call EXCEPT ![t] = [@ EXCEPT !.result = call[t].pRet, !.pc = "idle"]]
    /\ completed' = TRUE
    /\ UNCHANGED <<pImageBase, symbolBase, storeBuf>>

(* ---------------------------- specifications --------------------------- *)

\* What SpecScope remembers of the main thread's call chain: for each live
\* holder whether a suppression was set in its scope while it was the
\* innermost active one, and whether the last construction directly followed
\* the destruction of an active holder built under a LoadsTypeViolation
\* suppression. The other specifications leave it alone.
NoTrack == [suppressedInside |-> <<>>, second |-> FALSE]

\* A thread that has not entered the loader.
IdleState == ClrDebugState(0, {}, NULL)

InitialStates ==
    {ClrDebugState(l, m, OuterRecord) :
        l \in Levels, m \in {{}, {GCViolation}, {BadDebugState}}}

Init ==
    /\ dbg \in [Threads -> InitialStates \cup {IdleState}]
    /\ dbg[MainThread] \in InitialStates
    /\ \A t \in Threads \ {MainThread} : dbg[t] = IdleState
    /\ dbg0 = dbg
    /\ holders = [t \in Threads |-> <<>>]
    /\ last = [t \in Threads |-> NoOp]
    /\ actor = MainThread
    /\ track = NoTrack
    /\ symbolBase = NULL
    /\ ModuleInitial
    /\ ev = TestStart

ConstructStep ==
    \E fConditional \in BOOLEAN, newLevel \in Levels, fEnforce \in BOOLEAN :
        /\ Len(holders[MainThread]) < MaxDepth
        /\ Construct(MainThread, fConditional, newLevel, fEnforce)
        /\ UNCHANGED <<track, ModuleVars, ev>>

\* The innermost scope ends.
DestroyStep == Destroy(MainThread, FALSE) /\ UNCHANGED <<track, ModuleVars, ev>>

\* A failure leaves the innermost scope: one or several in a row unwind
\* through nested scopes until some caller handles the failure.
UnwindStep == Destroy(MainThread, TRUE) /\ UNCHANGED <<track, ModuleVars, ev>>

SuppressStep == Suppress(MainThread, LoadsTypeViolation) /\ UNCHANGED <<track, ModuleVars, ev>>

Next ==
    \/ ConstructStep
    \/ DestroyStep
    \/ UnwindStep
    \/ SuppressStep

Spec == Init /\ [][Next]_vars

(* Two threads interleave whole constructor and destructor calls: neither   *)
(* blocks or yields, and each starts from its own ceiling.                  *)

MTLevels == {0, MaxLevel}

MTInit ==
    /\ dbg = [t \in Threads |->
                ClrDebugState(IF t = MainThread THEN MaxLevel ELSE 0, {}, OuterRecord)]
    /\ dbg0 = dbg
    /\ holders = [t \in Threads |-> <<>>]
    /\ last = [t \in Threads |-> NoOp]
    /\ actor = MainThread
    /\ track = NoTrack
    /\ symbolBase = NULL
    /\ ModuleInitial
    /\ ev = TestStart

MTConstructStep ==
    \E t \in Threads, fConditional \in BOOLEAN, newLevel \in MTLevels, fEnforce \in BOOLEAN :
        /\ Len(holders[t]) < MTDepth
        /\ Construct(t, fConditional, newLevel, fEnforce)
        /\ UNCHANGED <<track, ModuleVars, ev>>

MTDestroyStep == (\E t \in Threads : Destroy(t, FALSE)) /\ UNCHANGED <<track, ModuleVars, ev>>

MTSuppressStep ==
    (\E t \in Threads : Suppress(t, LoadsTypeViolation)) /\ UNCHANGED <<track, ModuleVars, ev>>

MTNext ==
    \/ MTConstructStep
    \/ MTDestroyStep
    \/ MTSuppressStep

SpecMT == MTInit /\ [][MTNext]_vars

(* One thread again, now remembering where suppressions were set. A failure *)
(* unwinding a scope runs the same destructor as the end of the scope, so    *)
(* only the latter is taken here.                                            *)

\* The last operation of the thread destroyed an active holder whose
\* constructor found LoadsTypeViolation suppressed.
AfterSuppressedHolder(l) ==
    /\ l.op = "dtor"
    /\ l.holder.m_fConditional
    /\ LoadsTypeViolation \in ViolationMask(l.holder.before)

\* Marks the innermost active holder of hs in the flags fs.
NoteSuppress(hs, fs) ==
    LET S == {i \in 1..Len(hs) : hs[i].m_fConditional}
    IN IF S = {} THEN fs
       ELSE [fs EXCEPT ![CHOOSE i \in S : \A j \in S : j <= i] = TRUE]

ScopeInit ==
    /\ dbg \in [Threads -> InitialStates \cup {IdleState}]
    /\ dbg[MainThread] \in InitialStates
    /\ GCViolation \notin ViolationMask(dbg[MainThread])
    /\ \A t \in Threads \ {MainThread} : dbg[t] = IdleState
    /\ dbg0 = dbg
    /\ holders = [t \in Threads |-> <<>>]
    /\ last = [t \in Threads |-> NoOp]
    /\ actor = MainThread
    /\ track = NoTrack
    /\ symbolBase = NULL
    /\ ModuleInitial
    /\ ev = TestStart

ScopeConstructStep ==
    \E fConditional \in BOOLEAN, newLevel \in Levels, fEnforce \in BOOLEAN :
        /\ Len(holders[MainThread]) < MaxDepth
        /\ Construct(MainThread, fConditional, newLevel, fEnforce)
        /\ track' = [suppressedInside |-> Append(track.suppressedInside, FALSE),
                     second |-> AfterSuppressedHolder(last[MainThread])]
        /\ UNCHANGED <<ModuleVars, ev>>

ScopeDestroyStep ==
    /\ Destroy(MainThread, FALSE)
    /\ track' = [suppressedInside |->
                     SubSeq(track.suppressedInside, 1, Len(track.suppressedInside) - 1),
                 second |-> FALSE]
    /\ UNCHANGED <<ModuleVars, ev>>

ScopeSuppressStep ==
    /\ Suppress(MainThread, LoadsTypeViolation)
    /\ track' = [suppressedInside |->
                     NoteSuppress(holders[MainThread], track.suppressedInside),
                 second |-> FALSE]
    /\ UNCHANGED <<ModuleVars, ev>>

ScopeNext ==
    \/ ScopeConstructStep
    \/ ScopeDestroyStep
    \/ ScopeSuppressStep

SpecScope == ScopeInit /\ [][ScopeNext]_vars

\* Holders destroyed in any order: one thread builds up to MaxDepth active
\* holders, each inside the ones built before, and destroys them in an order
\* of its choice.
OOOInit == Init

OOOConstructStep ==
    \E newLevel \in Levels, fEnforce \in BOOLEAN :
        /\ Len(holders[MainThread]) < MaxDepth
        /\ Construct(MainThread, TRUE, newLevel, fEnforce)
        /\ UNCHANGED <<track, ModuleVars, ev>>

OOODestroyStep ==
    \E i \in 1..MaxDepth : DestroyAt(MainThread, i) /\ UNCHANGED <<track, ModuleVars, ev>>

OOOSuppressStep == Suppress(MainThread, LoadsTypeViolation) /\ UNCHANGED <<track, ModuleVars, ev>>

OOONext ==
    \/ OOOConstructStep
    \/ OOODestroyStep
    \/ OOOSuppressStep

SpecOOO == OOOInit /\ [][OOONext]_vars

\* No thread has built a holder.
HolderInitial ==
    /\ dbg = [t \in Threads |-> IdleState]
    /\ dbg0 = dbg
    /\ holders = [t \in Threads |-> <<>>]
    /\ last = [t \in Threads |-> NoOp]
    /\ actor = MainThread
    /\ track = NoTrack

\* Concurrent calls of GetCurrentModuleBase on a non-Windows host: every
\* thread makes up to MaxCalls calls, the steps of the calls interleave.
ModuleInit ==
    /\ symbolBase \in SymbolBases
    /\ ModuleInitial
    /\ ev = TestStart
    /\ HolderInitial

EnterCallStep == (\E t \in Threads : EnterCall(t)) /\ UNCHANGED <<HolderVars, ev>>

LoadCachedStep == (\E t \in Threads : LoadCached(t)) /\ UNCHANGED <<HolderVars, ev>>

LookupStep == (\E t \in Threads : Lookup(t)) /\ UNCHANGED <<HolderVars, ev>>

StoreCachedStep == (\E t \in Threads : StoreCached(t)) /\ UNCHANGED <<HolderVars, ev>>

StoreVisibleStep == (\E t \in Threads : StoreVisible(t)) /\ UNCHANGED <<HolderVars, ev>>

ReturnBaseStep == (\E t \in Threads : ReturnBase(t)) /\ UNCHANGED <<HolderVars, ev>>

ModuleNext ==
    \/ EnterCallStep
    \/ LoadCachedStep
    \/ LookupStep
    \/ StoreCachedStep
    \/ StoreVisibleStep
    \/ ReturnBaseStep

SpecModule == ModuleInit /\ [][ModuleNext]_vars

\* The main process of the event test and its children.
TestInit ==
    /\ ev = TestStart
    /\ symbolBase = NULL
    /\ ModuleInitial
    /\ HolderInitial

TestNext ==
    \/ CreateChild /\ UNCHANGED <<HolderVars, ModuleVars>>
    \/ ChildExits /\ UNCHANGED <<HolderVars, ModuleVars>>
    \/ WaitForChildren /\ UNCHANGED <<HolderVars, ModuleVars>>
    \/ CheckChild /\ UNCHANGED <<HolderVars, ModuleVars>>
    \/ CloseFile /\ UNCHANGED <<HolderVars, ModuleVars>>
    \/ CloseEvent /\ UNCHANGED <<HolderVars, ModuleVars>>
    \/ ReturnFromMain /\ UNCHANGED <<HolderVars, ModuleVars>>

SpecTest == TestInit /\ [][TestNext]_vars

(* ------------------------------ properties ----------------------------- *)

Depth(t) == Len(holders[t])

\* The innermost holder on the stack of thread t.
Top(t) == holders[t][Depth(t)]

\* Stack slots of thread t that hold an active holder (fConditional = TRUE).
ActiveSlots(t) == {i \in 1..Depth(t) : holders[t][i].m_fConditional}

Innermost(S) == CHOOSE i \in S : \A j \in S : j <= i

Level(t) == GetMaxLoadTypeLevel(dbg[t])

Mask(t) == ViolationMask(dbg[t])

Ascent(t) == last[t].args.newLevel > GetMaxLoadTypeLevel(last[t].holder.before)

Suppressed(st) == ({LoadsTypeViolation, BadDebugState} \cap ViolationMask(st)) # {}

\* The last operation of thread t built an active holder.
Constructed(t) == last[t].op = "ctor" /\ last[t].args.fConditional

\* The last operation of thread t destroyed an active holder.
Destroyed(t) == last[t].op = "dtor" /\ last[t].holder.m_fConditional

\* C1: right after an active holder is destroyed in stack order, at the end
\* of its scope or by a failure unwinding through it, the level limit and the
\* violation mask of the thread are those found by the holder's constructor.
C1_DestroyRestores ==
    \A t \in Threads :
        Destroyed(t) =>
            /\ Level(t) = GetMaxLoadTypeLevel(last[t].holder.before)
            /\ Mask(t) = ViolationMask(last[t].holder.before)

\* A failure has unwound two nested scopes, the outer one an active holder in
\* whose scope a violation was reported and whose constructor lifted a
\* suppression that is in force again now.
C1_Witness ==
    /\ Destroyed(MainThread)
    /\ last[MainThread].unwound >= 2
    /\ last[MainThread].holder.violInside
    /\ LoadsTypeViolation \in Mask(MainThread)

\* C2: the level limit of a thread is the newLevel of its innermost live
\* active holder, and the limit the thread started with when it has none.
C2_CeilingIsInnermost ==
    \A t \in Threads :
        Level(t) = IF ActiveSlots(t) # {}
                   THEN holders[t][Innermost(ActiveSlots(t))].newLevel
                   ELSE GetMaxLoadTypeLevel(dbg0[t])

\* An inactive holder sits inside an active one that changed the limit.
C2_Witness ==
    /\ Depth(MainThread) = 2
    /\ ActiveSlots(MainThread) = {1}
    /\ Level(MainThread) = holders[MainThread][1].newLevel
    /\ Level(MainThread) # GetMaxLoadTypeLevel(dbg0[MainThread])

\* C3: an active TRIGGERS_TYPE_LOAD holder whose newLevel is at most the
\* current limit reports no violation, whatever the violation mask.
C3_NoReportAtOrBelow ==
    \A t \in Threads :
        Constructed(t) /\ last[t].args.fEnforce /\ ~Ascent(t) => last[t].reports = <<>>

\* newLevel equals the limit and nothing is suppressed.
C3_Witness ==
    /\ Constructed(MainThread)
    /\ last[MainThread].args.fEnforce
    /\ last[MainThread].args.newLevel = GetMaxLoadTypeLevel(last[MainThread].holder.before)
    /\ ViolationMask(last[MainThread].holder.before) = {}
    /\ last[MainThread].reports = <<>>

\* C4: an active TRIGGERS_TYPE_LOAD holder whose newLevel is above the limit
\* reports one violation when neither LoadsTypeViolation nor BadDebugState is
\* suppressed and none when one of them is; the limit is newLevel afterwards.
C4_AscentReportsOnce ==
    \A t \in Threads :
        Constructed(t) /\ last[t].args.fEnforce /\ Ascent(t) =>
            /\ Len(last[t].reports) = IF Suppressed(last[t].holder.before) THEN 0 ELSE 1
            /\ Level(t) = last[t].args.newLevel

\* An ascent under a BadDebugState suppression: no report, limit raised.
C4_Witness ==
    /\ Constructed(MainThread)
    /\ last[MainThread].args.fEnforce
    /\ Ascent(MainThread)
    /\ ViolationMask(last[MainThread].holder.before) = {BadDebugState}
    /\ last[MainThread].reports = <<>>
    /\ Level(MainThread) = last[MainThread].args.newLevel

\* C5: an active OVERRIDE_TYPE_LOAD_LEVEL_LIMIT holder reports no violation
\* and the limit is its newLevel afterwards.
C5_OverrideNeverReports ==
    \A t \in Threads :
        Constructed(t) /\ ~last[t].args.fEnforce =>
            /\ last[t].reports = <<>>
            /\ Level(t) = last[t].args.newLevel

\* An override raises the limit while nothing is suppressed.
C5_Witness ==
    /\ Constructed(MainThread)
    /\ ~last[MainThread].args.fEnforce
    /\ Ascent(MainThread)
    /\ ViolationMask(last[MainThread].holder.before) = {}
    /\ Level(MainThread) = last[MainThread].args.newLevel

\* C6: right after an active holder is constructed the LoadsTypeViolation
\* bit of the thread's violation mask is clear.
C6_SuppressionLifted ==
    \A t \in Threads : Constructed(t) => LoadsTypeViolation \notin Mask(t)

\* The bit was set when the constructor began, and the ascent went unreported.
C6_Witness ==
    /\ Constructed(MainThread)
    /\ LoadsTypeViolation \in ViolationMask(last[MainThread].holder.before)
    /\ last[MainThread].args.fEnforce
    /\ Ascent(MainThread)
    /\ LoadsTypeViolation \notin Mask(MainThread)

\* Thread t takes a step that constructs or destroys an inactive holder.
InactiveStep(t) ==
    \/ /\ Len(holders'[t]) = Len(holders[t]) + 1
       /\ ~holders'[t][Len(holders'[t])].m_fConditional
    \/ /\ Len(holders'[t]) = Len(holders[t]) - 1
       /\ ~holders[t][Len(holders[t])].m_fConditional

\* C7: constructing or destroying a holder built with fConditional = FALSE
\* leaves the level limit, the violation mask and the trace head of the
\* thread as they were and reports nothing, whatever newLevel and direction.
C7_InactiveIsNop ==
    [][\A t \in Threads :
          InactiveStep(t) => dbg'[t] = dbg[t] /\ last'[t].reports = <<>>]_vars

\* An inactive TRIGGERS_TYPE_LOAD holder asked for a level above the limit
\* while nothing was suppressed.
C7_Witness ==
    /\ last[MainThread].op = "ctor"
    /\ ~last[MainThread].args.fConditional
    /\ last[MainThread].args.fEnforce
    /\ last[MainThread].args.newLevel > Level(MainThread)
    /\ Mask(MainThread) = {}
    /\ ~Top(MainThread).m_fConditional

\* C8: a reported violation changes neither installation nor restoration:
\* the violating holder's newLevel is the limit after its construction, its
\* destruction puts back the limit of the enclosing active holder, and the
\* destruction of a holder in whose scope a violation was reported puts back
\* the limit its constructor found.
C8_ViolationKeepsRestore ==
    \A t \in Threads :
        /\ Constructed(t) /\ Len(last[t].reports) = 1 => Level(t) = last[t].args.newLevel
        /\ Destroyed(t) /\ last[t].holder.reported = 1 /\ ActiveSlots(t) # {} =>
              Level(t) = holders[t][Innermost(ActiveSlots(t))].newLevel
        /\ Destroyed(t) /\ last[t].holder.violInside =>
              Level(t) = GetMaxLoadTypeLevel(last[t].holder.before)

\* Limit 1, A = 0 built without a report, B = 2 built inside A with a
\* report, B destroyed: the limit is A's 0 again.
C8_Witness ==
    /\ Destroyed(MainThread)
    /\ last[MainThread].holder.reported = 1
    /\ last[MainThread].holder.newLevel = 2
    /\ Depth(MainThread) = 1
    /\ Top(MainThread).m_fConditional
    /\ Top(MainThread).fEnforce
    /\ Top(MainThread).reported = 0
    /\ Top(MainThread).violInside
    /\ Top(MainThread).newLevel = 0
    /\ GetMaxLoadTypeLevel(Top(MainThread).before) = 1
    /\ Level(MainThread) = 0

RECURSIVE Walk(_, _, _)
\* The addresses met by following m_pNext from p on thread t, the first
\* address that is not the record of a live holder included.
Walk(t, p, fuel) ==
    IF fuel = 0 \/ p \notin 1..Depth(t)
    THEN <<p>>
    ELSE <<p>> \o Walk(t, holders[t][p].m_contractStackRecord.m_pNext, fuel - 1)

RECURSIVE Descending(_, _)
\* The active slots among 1..n, innermost first.
Descending(t, n) ==
    IF n = 0 THEN <<>>
    ELSE IF holders[t][n].m_fConditional
         THEN <<n>> \o Descending(t, n - 1)
         ELSE Descending(t, n - 1)

\* C9: following m_pNext from the thread's trace head visits the records of
\* the live active holders, each once and innermost first, and then reaches
\* the head the thread had before any of them; no record of a destroyed or
\* inactive holder is met.
C9_TraceIsLiveStack ==
    \A t \in Threads :
        Walk(t, GetContractStackTrace(dbg[t]), Depth(t) + 1)
            = Descending(t, Depth(t)) \o <<GetContractStackTrace(dbg0[t])>>

\* A nested active holder was destroyed and the enclosing one is the head.
C9_Witness ==
    /\ Destroyed(MainThread)
    /\ ActiveSlots(MainThread) = {1}
    /\ GetContractStackTrace(dbg[MainThread]) = 1
    /\ Top(MainThread).m_contractStackRecord.m_pNext = OuterRecord

\* C10: a step of one thread leaves the ClrDebugState of every other thread
\* as it was, and each thread's level limit is decided by its own holders.
C10_ThreadConfined ==
    /\ [][\A t \in Threads : t # actor' => dbg'[t] = dbg[t]]_vars
    /\ []C2_CeilingIsInnermost

\* Both threads are inside an active holder, with different limits.
C10_Witness ==
    /\ \A t \in Threads : ActiveSlots(t) # {}
    /\ Level("t1") # Level("t2")
    /\ actor = "t2"

\* The last operation of thread t built an active TRIGGERS_TYPE_LOAD holder
\* whose newLevel is above the limit it found.
TriggersAscent(t) == Constructed(t) /\ last[t].args.fEnforce /\ Ascent(t)

\* The active holders that enclose the innermost holder of thread t.
Enclosing(t) == ActiveSlots(t) \ {Depth(t)}

\* The main thread built a TRIGGERS_TYPE_LOAD holder above the limit inside
\* the scope of an active holder, and no suppression was set in that scope
\* since the enclosing holder was built.
NestedAscentUnsuppressed ==
    /\ TriggersAscent(MainThread)
    /\ Enclosing(MainThread) # {}
    /\ ~track.suppressedInside[Innermost(Enclosing(MainThread))]

\* C11 as claimed: inside the scope of a live active holder a nested
\* TRIGGERS_TYPE_LOAD ascent is reported unless a suppression was set again
\* after the enclosing holder was built, for LoadsTypeViolation and for
\* BadDebugState alike.
C11_Claimed_NoSuppressionLeaks ==
    NestedAscentUnsuppressed => Len(last[MainThread].reports) = 1

\* C11 as amended: the same holds when BadDebugState is not in the mask; the
\* constructor lifts LoadsTypeViolation only, so a BadDebugState suppression
\* set outside the scope still withholds the report inside it.
C11_LoadsTypeSuppressionDoesNotLeak ==
    /\ NestedAscentUnsuppressed
       /\ BadDebugState \notin ViolationMask(last[MainThread].holder.before)
          => Len(last[MainThread].reports) = 1
    /\ TriggersAscent(MainThread)
       /\ BadDebugState \in ViolationMask(last[MainThread].holder.before)
          => last[MainThread].reports = <<>>

\* The enclosing holder was built under a LoadsTypeViolation suppression and
\* the ascent nested in it is reported.
C11_Witness ==
    /\ NestedAscentUnsuppressed
    /\ LoadsTypeViolation \in ViolationMask(holders[MainThread][1].before)
    /\ holders[MainThread][1].m_fConditional
    /\ Len(last[MainThread].reports) = 1

\* C12 as claimed: after the holder built under a LoadsTypeViolation
\* suppression is destroyed, a second TRIGGERS_TYPE_LOAD ascent built without
\* a new suppress call is reported.
C12_Claimed_OneShot ==
    track.second /\ TriggersAscent(MainThread) => Len(last[MainThread].reports) = 1

\* C12 as amended: the destructor puts the suppression back, so the second
\* ascent finds LoadsTypeViolation suppressed and reports nothing.
C12_SuppressionReturnsAfterScope ==
    track.second /\ TriggersAscent(MainThread) =>
        /\ LoadsTypeViolation \in ViolationMask(last[MainThread].holder.before)
        /\ last[MainThread].reports = <<>>

\* A second ascent right after the first holder was destroyed, with no
\* BadDebugState to explain the missing report.
C12_Witness ==
    /\ track.second
    /\ TriggersAscent(MainThread)
    /\ BadDebugState \notin ViolationMask(last[MainThread].holder.before)
    /\ last[MainThread].reports = <<>>

\* Slots i < j of thread t hold active holders and every active holder from
\* i to j was built in TRIGGERS_TYPE_LOAD mode.
TriggersChain(t, i, j) ==
    /\ i \in ActiveSlots(t) /\ j \in ActiveSlots(t) /\ i < j
    /\ \A k \in ActiveSlots(t) : i <= k /\ k <= j => holders[t][k].fEnforce

\* The holder was built without a report and without a suppression in force.
CleanlyBuilt(h) == h.reported = 0 /\ ~Suppressed(h.before)

\* C13 as claimed: along a chain of live TRIGGERS_TYPE_LOAD holders the
\* installed limits never increase from the outside in.
C13_Claimed_TriggersMonotone ==
    \A t \in Threads : \A i, j \in 1..Depth(t) :
        TriggersChain(t, i, j) => holders[t][j].newLevel <= holders[t][i].newLevel

\* C13 as amended: they never increase when no holder of the chain inside the
\* outermost one reported a violation or was built under a suppression.
C13_CleanTriggersMonotone ==
    \A t \in Threads : \A i, j \in 1..Depth(t) :
        /\ TriggersChain(t, i, j)
        /\ \A k \in ActiveSlots(t) : i < k /\ k <= j => CleanlyBuilt(holders[t][k])
        => holders[t][j].newLevel <= holders[t][i].newLevel

\* Two nested clean TRIGGERS_TYPE_LOAD holders, the inner limit lower.
C13_Witness ==
    /\ TriggersChain(MainThread, 1, 2)
    /\ CleanlyBuilt(holders[MainThread][2])
    /\ holders[MainThread][2].newLevel < holders[MainThread][1].newLevel

\* Every live holder of thread t is an active TRIGGERS_TYPE_LOAD holder built
\* without a report and without a suppression in force.
AllCleanTriggers(t) ==
    \A i \in 1..Depth(t) :
        /\ holders[t][i].m_fConditional
        /\ holders[t][i].fEnforce
        /\ CleanlyBuilt(holders[t][i])

\* C14 as claimed: in such a chain every nested holder installs a limit
\* strictly below the enclosing one, so the limit the thread started with
\* bounds the nesting depth.
C14_Claimed_StrictDescent ==
    \A t \in Threads :
        AllCleanTriggers(t) =>
            /\ \A i \in 2..Depth(t) : holders[t][i].newLevel < holders[t][i - 1].newLevel
            /\ Depth(t) <= GetMaxLoadTypeLevel(dbg0[t]) + 1

\* C14 as amended: every holder of such a chain installs a limit at most the
\* one it found; an equal limit is accepted without a report.
C14_DescentIsNotStrict ==
    \A t \in Threads :
        AllCleanTriggers(t) =>
            \A i \in 1..Depth(t) :
                holders[t][i].newLevel <= GetMaxLoadTypeLevel(holders[t][i].before)

\* From limit 0 two clean TRIGGERS_TYPE_LOAD holders are nested, both with
\* limit 0: the depth exceeds what strict descent would allow.
C14_Witness ==
    /\ GetMaxLoadTypeLevel(dbg0[MainThread]) = 0
    /\ Depth(MainThread) = 2
    /\ AllCleanTriggers(MainThread)
    /\ holders[MainThread][2].newLevel = holders[MainThread][1].newLevel

\* The trace head the destructor found: the address of the destroyed holder's
\* own record, one slot above what is left of the stack.
HeadBeforeDestroy(t) == Depth(t) + 1

\* C16 as claimed: destroying an active holder does not write the trace head
\* of the thread, which still is the destroyed holder's own record.
C16_Claimed_TraceHeadNotWritten ==
    \A t \in Threads :
        Destroyed(t) => GetContractStackTrace(dbg[t]) = HeadBeforeDestroy(t)

\* C16: the snapshot an active holder takes is the whole ClrDebugState, the
\* trace head included, and right after the holder is destroyed the thread's
\* ClrDebugState is that snapshot: the trace head is written back to the
\* record the holder's own record points to, and no longer is the holder's.
C16_DestroyRestoresTraceHead ==
    \A t \in Threads :
        Destroyed(t) =>
            /\ dbg[t] = last[t].holder.m_oldClrDebugState
            /\ GetContractStackTrace(last[t].holder.m_oldClrDebugState)
                   = last[t].holder.m_contractStackRecord.m_pNext
            /\ GetContractStackTrace(dbg[t]) = last[t].holder.m_contractStackRecord.m_pNext
            /\ GetContractStackTrace(dbg[t]) # HeadBeforeDestroy(t)

\* The outermost active holder was destroyed after it changed the level
\* limit: the trace head is the caller's record again.
C16_Witness ==
    /\ Destroyed(MainThread)
    /\ Depth(MainThread) = 0
    /\ GetContractStackTrace(dbg[MainThread]) = OuterRecord
    /\ last[MainThread].holder.newLevel # Level(MainThread)

\* C17 as claimed: an ascent of an active TRIGGERS_TYPE_LOAD holder is
\* reported whenever LoadsTypeViolation is not suppressed.
C17_Claimed_LoadsTypeFlagOnly ==
    \A t \in Threads :
        TriggersAscent(t) /\ LoadsTypeViolation \notin ViolationMask(last[t].holder.before)
            => Len(last[t].reports) = 1

\* C17: with LoadsTypeViolation not suppressed, an ascent of an active
\* TRIGGERS_TYPE_LOAD holder is reported exactly when BadDebugState is not
\* suppressed either; no bit other than these two withholds the report.
C17_TwoFlagsDecide ==
    \A t \in Threads :
        TriggersAscent(t) /\ LoadsTypeViolation \notin ViolationMask(last[t].holder.before)
            => /\ (last[t].reports = <<>>)
                     = (BadDebugState \in ViolationMask(last[t].holder.before))
               /\ (BadDebugState \notin ViolationMask(last[t].holder.before)
                     => Len(last[t].reports) = 1)

\* An ascent under a GCViolation suppression is reported.
C17_Witness ==
    /\ TriggersAscent(MainThread)
    /\ ViolationMask(last[MainThread].holder.before) = {GCViolation}
    /\ Len(last[MainThread].reports) = 1

\* Thread t takes a step that reports a violation.
ReportingStep(t) == last'[t] # last[t] /\ last'[t].reports # <<>>

\* C18: a violation is reported only by a step that constructs a holder, and
\* the ClrDebugState handed to the report is the one the step began with: its
\* level limit and violation mask are those before the construction and its
\* trace head is not the new holder's record.
C18_ReportPrecedesChange ==
    [][\A t \in Threads :
          ReportingStep(t) =>
              /\ Len(holders'[t]) = Len(holders[t]) + 1
              /\ last'[t].op = "ctor"
              /\ \A i \in 1..Len(last'[t].reports) :
                    /\ last'[t].reports[i].state = dbg[t]
                    /\ GetContractStackTrace(last'[t].reports[i].state) # Len(holders'[t])
                    /\ last'[t].reports[i].testmask = GetMaxLoadTypeLevel(dbg[t]) + 1]_vars

\* A reported ascent inside a live active holder: the report saw the lower
\* limit and the enclosing holder's record, the thread now has the higher
\* limit and the new holder's record.
C18_Witness ==
    /\ TriggersAscent(MainThread)
    /\ Depth(MainThread) = 2
    /\ Len(last[MainThread].reports) = 1
    /\ GetContractStackTrace(last[MainThread].reports[1].state) = 1
    /\ GetContractStackTrace(dbg[MainThread]) = 2
    /\ GetMaxLoadTypeLevel(last[MainThread].reports[1].state) < Level(MainThread)

\* The report decision as a function of the requested level, the level limit
\* and the violation mask alone.
ReportDecision(newLevel, level, mask) ==
    newLevel > level /\ ({LoadsTypeViolation, BadDebugState} \cap mask) = {}

\* C19: whether constructing an active TRIGGERS_TYPE_LOAD holder reports a
\* violation is decided by newLevel, the level limit and the violation mask
\* the constructor found, whatever holders led to that limit and mask.
C19_DecisionIsLocal ==
    \A t \in Threads :
        Constructed(t) /\ last[t].args.fEnforce =>
            (last[t].reports # <<>>)
                = ReportDecision(last[t].args.newLevel,
                                 GetMaxLoadTypeLevel(last[t].holder.before),
                                 ViolationMask(last[t].holder.before))

\* Inside an OVERRIDE_TYPE_LOAD_LEVEL_LIMIT holder that raised the limit, a
\* TRIGGERS_TYPE_LOAD holder asks for a level above the one the thread began
\* with and at most the raised limit: nothing is reported.
C19_Witness ==
    /\ Constructed(MainThread)
    /\ last[MainThread].args.fEnforce
    /\ Depth(MainThread) = 2
    /\ holders[MainThread][1].m_fConditional
    /\ ~holders[MainThread][1].fEnforce
    /\ holders[MainThread][1].newLevel > GetMaxLoadTypeLevel(dbg0[MainThread])
    /\ last[MainThread].args.newLevel > GetMaxLoadTypeLevel(dbg0[MainThread])
    /\ last[MainThread].args.newLevel <= holders[MainThread][1].newLevel
    /\ ViolationMask(last[MainThread].holder.before) = {}
    /\ last[MainThread].reports = <<>>

\* The last operation of thread t destroyed an active holder that was built
\* inside the holder of slot i, and the holder of slot i was destroyed first.
DestroyedAfterEnclosing(t, i) ==
    /\ Destroyed(t)
    /\ i \in 1..Depth(t)
    /\ last[t].holder.m_contractStackRecord.m_pNext = i
    /\ holders[t][i].destroyed

\* C20: when an active holder A is destroyed before the active holder B built
\* inside it, the destruction of B leaves the level limit A installed and the
\* violation mask found by B's constructor, and the trace head is the record
\* of the destroyed A.
C20_OutOfOrderCorrupts ==
    \A t \in Threads : \A i \in 1..MaxDepth :
        DestroyedAfterEnclosing(t, i) =>
            /\ Level(t) = holders[t][i].newLevel
            /\ Mask(t) = ViolationMask(last[t].holder.before)
            /\ GetContractStackTrace(dbg[t]) = i

\* A and B are both destroyed, A first, and the thread is left with A's
\* level limit, not with the one it had before A.
C20_Witness ==
    /\ DestroyedAfterEnclosing(MainThread, 1)
    /\ Depth(MainThread) = 2
    /\ holders[MainThread][2].destroyed
    /\ last[MainThread].holder.newLevel = holders[MainThread][2].newLevel
    /\ Level(MainThread) = holders[MainThread][1].newLevel
    /\ Level(MainThread) # GetMaxLoadTypeLevel(dbg0[MainThread])
    /\ GetContractStackTrace(dbg[MainThread]) = 1

\* Thread t returns from GetCurrentModuleBase in this step.
Returns(t) == call[t].pc = "return" /\ call'[t].pc = "idle"

\* Thread t runs the lookup in this step.
LooksUp(t) == call[t].pc = "lookup" /\ call'[t].pc = "store"

\* Every call returns what PAL_GetSymbolModuleBase answers, and pImageBase
\* once non-null keeps its value.
ReturnsLookupAndCacheStable ==
    /\ \A t \in Threads : Returns(t) => call'[t].result = PAL_GetSymbolModuleBase
    /\ pImageBase # NULL => pImageBase' = pImageBase

\* C21 as claimed: every call returns what PAL_GetSymbolModuleBase answers,
\* pImageBase once non-null keeps its value, and a call that began after
\* some call had returned never runs the lookup.
C21_Claimed_NoLookupAfterCompleted ==
    [][/\ ReturnsLookupAndCacheStable
       /\ \A t \in Threads : call[t].afterCompleted => ~LooksUp(t)]_vars

\* C21: every call returns what PAL_GetSymbolModuleBase answers, pImageBase
\* once non-null keeps its value, and a call never runs the lookup when it
\* began with a non-null pImageBase visible to its thread, that is after the
\* store of a non-null base had reached memory or had been made by the
\* thread itself.
C21_NoLookupOnceVisible ==
    [][/\ ReturnsLookupAndCacheStable
       /\ \A t \in Threads : call[t].afterVisible => ~LooksUp(t)]_vars

\* Both threads ran the lookup in overlapping first calls, and the second
\* call of one of them began with the base visible and returned it without
\* a lookup.
C21_Witness ==
    /\ symbolBase = ModuleBaseAddress
    /\ pImageBase = ModuleBaseAddress
    /\ call["t2"].looked
    /\ call["t1"].n = 2
    /\ call["t1"].pc = "idle"
    /\ call["t1"].afterVisible
    /\ ~call["t1"].looked
    /\ call["t1"].result = ModuleBaseAddress

\* The wait returned WAIT_OBJECT_0, the exit code of every child was
\* retrieved and is not FAIL, and every handle and the result file closed.
AllWentWell ==
    /\ ev.waited
    /\ ev.returnCode = WAIT_OBJECT_0
    /\ Len(ev.facts.got) = PROCESS_COUNT
    /\ \A k \in 1..PROCESS_COUNT :
          /\ ev.facts.got[k]
          /\ ExitCodeOf(k) # FAIL
          /\ ev.facts.hThread[k]
          /\ ev.facts.hProcess[k]
    /\ ev.facts.pFile
    /\ ev.facts.hEventHandle

\* C22: the main process of the event test asks for a child's exit code only
\* after WaitForMultipleObjects on all PROCESS_COUNT children has returned,
\* and the test ends with PASS exactly when the wait returned WAIT_OBJECT_0,
\* every child's exit code was retrieved and is not FAIL, and every thread,
\* process and event handle and the result file were closed; with FAIL
\* otherwise.
C22_PassOnlyIfAllWentWell ==
    /\ ev.facts.got # <<>> => ev.waited /\ Len(ev.child) = PROCESS_COUNT
    /\ ev.pc = "done" =>
          /\ ev.exitCode \in {PASS, FAIL}
          /\ (ev.exitCode = PASS) = AllWentWell

\* Every child exited with PASS, the wait returned WAIT_OBJECT_0 and every
\* exit code was retrieved; closing the thread handle of the first child is
\* the one thing that failed, and the test ended with FAIL.
C22_Witness ==
    /\ ev.pc = "done"
    /\ ev.returnCode = WAIT_OBJECT_0
    /\ ev.facts.got = <<TRUE, TRUE>>
    /\ \A k \in 1..PROCESS_COUNT : ExitCodeOf(k) = PASS
    /\ ev.facts.hThread = <<FALSE, TRUE>>
    /\ ev.facts.hProcess = <<TRUE, TRUE>>
    /\ ev.facts.pFile
    /\ ev.facts.hEventHandle
    /\ ev.exitCode = FAIL

\* C23: right after an active holder is constructed its record is the trace
\* head of the thread, the record's m_pNext is the trace head the constructor
\* found, its m_construct is TRIGGERS_TYPE_LOAD exactly when
\* fEnforceLevelChangeDirection is true and OVERRIDE_TYPE_LOAD_LEVEL_LIMIT
\* otherwise, and the LOADS_TYPE field of its m_testmask is newLevel + 1, the
\* limit now in force plus one; a violation report carries the limit the
\* constructor found plus one in that field.
C23_RecordContents ==
    \A t \in Threads :
        Constructed(t) =>
            LET r == Top(t).m_contractStackRecord
            IN /\ GetContractStackTrace(dbg[t]) = Depth(t)
               /\ r.m_pNext = GetContractStackTrace(last[t].holder.before)
               /\ (r.m_construct = "TRIGGERS_TYPE_LOAD") = last[t].args.fEnforce
               /\ (r.m_construct = "OVERRIDE_TYPE_LOAD_LEVEL_LIMIT") = ~last[t].args.fEnforce
               /\ r.m_testmask = last[t].args.newLevel + 1
               /\ r.m_testmask = Level(t) + 1
               /\ \A i \in 1..Len(last[t].reports) :
                     last[t].reports[i].testmask
                         = GetMaxLoadTypeLevel(last[t].holder.before) + 1

\* A reported ascent inside a live OVERRIDE_TYPE_LOAD_LEVEL_LIMIT holder: the
\* two records differ in label, the new one points to the enclosing one, and
\* the report and the new record carry different levels.
C23_Witness ==
    /\ TriggersAscent(MainThread)
    /\ Depth(MainThread) = 2
    /\ holders[MainThread][1].m_contractStackRecord.m_construct
           = "OVERRIDE_TYPE_LOAD_LEVEL_LIMIT"
    /\ Top(MainThread).m_contractStackRecord.m_construct = "TRIGGERS_TYPE_LOAD"
    /\ Top(MainThread).m_contractStackRecord.m_pNext = 1
    /\ Len(last[MainThread].reports) = 1
    /\ last[MainThread].reports[1].testmask
           < Top(MainThread).m_contractStackRecord.m_testmask

====
